---- MODULE Spec2Model ----
(***************************************************************************)
(* Model of blender25_x3d/export_kanim.py: the ExportKAnim operator, which *)
(* exports a scene's animation as one X3D file per sampled frame plus a    *)
(* KAnim index file.  Strings are sequences of one-character strings, so   *)
(* that formatting ("%04d", "%f") and path handling (os.path.split,        *)
(* os.path.splitext, os.path.join, POSIX flavour) are computed, not        *)
(* assumed.                                                                *)
(***************************************************************************)
EXTENDS Integers, Sequences, FiniteSets, TLC

VARIABLES
    filepath,        \* self.filepath: the path of the .kanim index file
    frame_skip,      \* self.frame_skip
    frame_start,     \* context.scene.frame_start
    frame_end,       \* context.scene.frame_end
    frame_current,   \* the host's scene-time cursor (set by scene.frame_set)
    pc,              \* position of the control flow inside execute
    frame,           \* execute's local loop variable
    of_frame,        \* output_frame's argument `frame`
    of_ret,          \* where output_frame returns to: "incr" (line 104) or "write_end" (line 109)
    output_dir,      \* output_frame's local output_dir
    output_basename, \* output_frame's local output_basename
    kanim_open,      \* TRUE while the handle kanim_file is open
    kanim_lines,     \* what has been written to kanim_file, one record per write
    written,         \* history: the frame of each <frame .../> line, in order
    x3d_calls,       \* history: the completed bpy.ops.export_scene.x3d calls
    files,           \* the model files present on disk
    raised,          \* the exception that left execute, or "none"
    result,          \* the value execute returned, or "none"
    probe            \* inputs/outputs of the file-name generation taken alone

vars == <<filepath, frame_skip, frame_start, frame_end, frame_current, pc, frame,
          of_frame, of_ret, output_dir, output_basename, kanim_open, kanim_lines,
          written, x3d_calls, files, raised, result, probe>>

----------------------------------------------------------------------------
(* Bounds of the model *)

MaxFrame == 12
MaxStart == 6
NameWin == 2

(* Program constants *)

FrameSkipMin == 0
FrameSkipMax == 50
PadWidth == 4
FracDigits == 6
FPS == 25

----------------------------------------------------------------------------
(* Strings *)

DigitChars == <<"0", "1", "2", "3", "4", "5", "6", "7", "8", "9">>

Str_x3d == <<".", "x", "3", "d">>

RECURSIVE Pow10(_)
Pow10(k) == IF k = 0 THEN 1 ELSE 10 * Pow10(k - 1)

RECURSIVE DecimalDigits(_)
DecimalDigits(n) ==
    IF n < 10 THEN <<DigitChars[n + 1]>>
    ELSE DecimalDigits(n \div 10) \o <<DigitChars[(n % 10) + 1]>>

RECURSIVE ZeroPad(_, _)
ZeroPad(s, width) ==
    IF Len(s) >= width THEN s ELSE ZeroPad(<<"0">> \o s, width)

(* "%0<width>d" % n: the sign counts towards the width, no digit is ever dropped *)
FormatD(n, width) ==
    IF n < 0 THEN <<"-">> \o ZeroPad(DecimalDigits(-n), width - 1)
    ELSE ZeroPad(DecimalDigits(n), width)

(* round(num / den) to the nearest integer, ties to even; num >= 0, den > 0 *)
RoundHalfEven(num, den) ==
    LET q == num \div den
        r == num % den
    IN  IF 2 * r < den THEN q
        ELSE IF 2 * r > den THEN q + 1
        ELSE IF q % 2 = 0 THEN q ELSE q + 1

(* "%f" % (num / den): fixed point, six digits after the point *)
FormatF(num, den) ==
    LET mag   == IF num < 0 THEN -num ELSE num
        scale == Pow10(FracDigits)
        u     == RoundHalfEven(mag * scale, den)
        body  == DecimalDigits(u \div scale) \o <<".">>
                 \o ZeroPad(DecimalDigits(u % scale), FracDigits)
    IN  IF num < 0 THEN <<"-">> \o body ELSE body

----------------------------------------------------------------------------
(* Paths (posixpath) *)

(* p.rfind(c) + 1: the 1-based position of the last c in p, 0 when absent *)
RFind(p, c) ==
    LET hits == {i \in 1..Len(p) : p[i] = c}
    IN  IF hits = {} THEN 0 ELSE CHOOSE i \in hits : \A j \in hits : j <= i

RECURSIVE RStrip(_, _)
RStrip(s, c) ==
    IF s # <<>> /\ s[Len(s)] = c THEN RStrip(SubSeq(s, 1, Len(s) - 1), c) ELSE s

(* os.path.split(p) = <<head, tail>> *)
PathSplit(p) ==
    LET i    == RFind(p, "/")
        head == SubSeq(p, 1, i)
        tail == SubSeq(p, i + 1, Len(p))
    IN  IF head # <<>> /\ (\E k \in 1..Len(head) : head[k] # "/")
        THEN <<RStrip(head, "/"), tail>>
        ELSE <<head, tail>>

(* os.path.splitext(p)[0] *)
SplitExtRoot(p) ==
    LET sepIndex == RFind(p, "/")
        dotIndex == RFind(p, ".")
    IN  IF dotIndex > sepIndex
           /\ (\E k \in (sepIndex + 1)..(dotIndex - 1) : p[k] # ".")
        THEN SubSeq(p, 1, dotIndex - 1)
        ELSE p

(* os.path.join(a, b) *)
PathJoin(a, b) ==
    IF b # <<>> /\ b[1] = "/" THEN b
    ELSE IF a = <<>> \/ a[Len(a)] = "/" THEN a \o b
    ELSE a \o <<"/">> \o b

----------------------------------------------------------------------------
(* The pure parts of output_frame and execute *)

(* output_frame, line 80: output_dir *)
OutputDir(path) == PathSplit(path)[1]

(* variant: "%d" in place of "%04d" *)
OutputBasenameNoPad(path, f) ==
    SplitExtRoot(PathSplit(path)[2]) \o DecimalDigits(f) \o Str_x3d

(* variant: the frame number cut to its last four digits *)
OutputBasenameTruncated(path, f) ==
    SplitExtRoot(PathSplit(path)[2]) \o FormatD(f % Pow10(PadWidth), PadWidth) \o Str_x3d

(* output_frame, lines 80-82: output_basename, the per-frame file name *)
OutputBasename(path, f) ==
    SplitExtRoot(PathSplit(path)[2]) \o FormatD(f, PadWidth) \o Str_x3d

(* variant: the directory is not joined in front of the name *)
X3dFilepathNoDir(dir, basename) == basename

(* output_frame, line 90: the filepath argument of the host exporter *)
X3dFilepath(dir, basename) == PathJoin(dir, basename)

(* variant: the time is not shifted by frame_start *)
KanimTimeUnshifted(f, start) == FormatF(f, FPS)

(* output_frame, line 86: the time attribute, "%f" % ((frame-frame_start) / 25.0) *)
KanimTime(f, start) == FormatF(f - start, FPS)

(* variant: <= in place of < *)
LoopCondLe(f, end) == f <= end

(* execute, line 102: the loop condition *)
LoopCond(f, end) == f < end

(* variant: frame_skip is ignored *)
NextFrameNoSkip(f, skip) == f + 1

(* execute, line 104: frame += 1 + self.frame_skip *)
NextFrame(f, skip) == f + 1 + skip

(* variant: the loop variable is passed in place of frame_end *)
LastFrameArgLoopVar(f, end) == f

(* execute, line 107: the frame of the call after the loop *)
LastFrameArg(f, end) == end

----------------------------------------------------------------------------
(* Inputs *)

Str_a_k    == <<"a", ".", "k">>
Str_d_a1_k == <<"d", "/", "/", "a", "1", ".", "k">>
Str_root_k == <<"/", ".", "k">>

FilePaths == {Str_a_k, Str_d_a1_k, Str_root_k}

CursorFrames == {0, MaxFrame}

XmlLine  == [tag |-> "xml", file_name |-> <<>>, time |-> <<>>]
RootLine == [tag |-> "animation", file_name |-> <<>>, time |-> <<>>]
EndLine  == [tag |-> "/animation", file_name |-> <<>>, time |-> <<>>]
FrameLine(name, time) == [tag |-> "frame", file_name |-> name, time |-> time]

NoProbe == [st |-> "off", a |-> 0, b |-> 0, name_a |-> <<>>, name_b |-> <<>>]

(* the operator's locals and the histories before execute has run *)
Fresh ==
    /\ frame = 0
    /\ of_frame = 0
    /\ of_ret = "none"
    /\ output_dir = <<>>
    /\ output_basename = <<>>
    /\ kanim_open = FALSE
    /\ kanim_lines = <<>>
    /\ written = <<>>
    /\ x3d_calls = <<>>
    /\ files = {}
    /\ raised = "none"
    /\ result = "none"

Init ==
    /\ filepath \in FilePaths
    /\ frame_skip \in FrameSkipMin..FrameSkipMax
    /\ frame_start \in 0..MaxStart
    /\ frame_end \in 0..MaxFrame
    /\ frame_current \in CursorFrames
    /\ pc = "open"
    /\ Fresh
    /\ probe = NoProbe

----------------------------------------------------------------------------
(* execute *)

scene == <<frame_skip, frame_start, frame_end>>
of_locals == <<of_frame, of_ret, output_dir, output_basename>>
host == <<frame_current, x3d_calls, files>>
outcome == <<raised, result>>

(* line 97: kanim_file = open(self.filepath, 'w') *)
Open ==
    /\ pc = "open"
    /\ kanim_open' = TRUE
    /\ pc' = "write_xml"
    /\ UNCHANGED <<filepath, scene, frame, of_locals, kanim_lines, written, host,
                   outcome, probe>>

(* line 97: open raises (unwritable path); nothing was acquired *)
OpenFails ==
    /\ pc = "open"
    /\ raised' = "IOError"
    /\ pc' = "raised"
    /\ UNCHANGED <<filepath, scene, frame, of_locals, kanim_open, kanim_lines, written,
                   host, result, probe>>

(* line 98 *)
WriteXml ==
    /\ pc = "write_xml"
    /\ kanim_lines' = Append(kanim_lines, XmlLine)
    /\ pc' = "write_root"
    /\ UNCHANGED <<filepath, scene, frame, of_locals, kanim_open, written, host,
                   outcome, probe>>

(* line 99 *)
WriteRoot ==
    /\ pc = "write_root"
    /\ kanim_lines' = Append(kanim_lines, RootLine)
    /\ pc' = "init_frame"
    /\ UNCHANGED <<filepath, scene, frame, of_locals, kanim_open, written, host,
                   outcome, probe>>

(* line 101: frame = context.scene.frame_start *)
InitFrame ==
    /\ pc = "init_frame"
    /\ frame' = frame_start
    /\ pc' = "while"
    /\ UNCHANGED <<filepath, scene, of_locals, kanim_open, kanim_lines, written, host,
                   outcome, probe>>

(* lines 102-103: the loop condition holds, output_frame is called with frame *)
WhileTrue ==
    /\ pc = "while"
    /\ LoopCond(frame, frame_end)
    /\ of_frame' = frame
    /\ of_ret' = "incr"
    /\ pc' = "of_names"
    /\ UNCHANGED <<filepath, scene, frame, output_dir, output_basename, kanim_open,
                   kanim_lines, written, host, outcome, probe>>

(* lines 102, 107: the loop ends, output_frame is called for the last frame *)
WhileFalse ==
    /\ pc = "while"
    /\ ~LoopCond(frame, frame_end)
    /\ of_frame' = LastFrameArg(frame, frame_end)
    /\ of_ret' = "write_end"
    /\ pc' = "of_names"
    /\ UNCHANGED <<filepath, scene, frame, output_dir, output_basename, kanim_open,
                   kanim_lines, written, host, outcome, probe>>

(* output_frame, lines 80-82 *)
OutputNames ==
    /\ pc = "of_names"
    /\ output_dir' = OutputDir(filepath)
    /\ output_basename' = OutputBasename(filepath, of_frame)
    /\ pc' = "of_write"
    /\ UNCHANGED <<filepath, scene, frame, of_frame, of_ret, kanim_open, kanim_lines,
                   written, host, outcome, probe>>

(* output_frame, lines 85-86: the <frame .../> line *)
WriteFrameLine ==
    /\ pc = "of_write"
    /\ kanim_lines' = Append(kanim_lines,
                             FrameLine(output_basename, KanimTime(of_frame, frame_start)))
    /\ written' = Append(written, of_frame)
    /\ pc' = "of_frame_set"
    /\ UNCHANGED <<filepath, scene, frame, of_locals, kanim_open, host, outcome, probe>>

(* variant: the cursor is not moved *)
FrameSetSkipped ==
    /\ pc = "of_frame_set"
    /\ pc' = "of_x3d"
    /\ UNCHANGED <<filepath, scene, frame, of_locals, kanim_open, kanim_lines, written,
                   host, outcome, probe>>

(* output_frame, line 89: context.scene.frame_set(frame) *)
FrameSet ==
    /\ pc = "of_frame_set"
    /\ frame_current' = of_frame
    /\ pc' = "of_x3d"
    /\ UNCHANGED <<filepath, scene, frame, of_locals, kanim_open, kanim_lines, written,
                   x3d_calls, files, outcome, probe>>

(* output_frame, line 89: frame_set raises *)
FrameSetFails ==
    /\ pc = "of_frame_set"
    /\ raised' = "frame_set error"
    /\ pc' = "raised"
    /\ UNCHANGED <<filepath, scene, frame, of_locals, kanim_open, kanim_lines, written,
                   host, result, probe>>

(* output_frame, lines 90-94: the host exporter writes the frame's model file;
   output_frame returns to its caller *)
X3dExport ==
    /\ pc = "of_x3d"
    /\ LET path == X3dFilepath(output_dir, output_basename)
       IN  /\ x3d_calls' = Append(x3d_calls,
                                  [filepath |-> path, frame_current |-> frame_current])
           /\ files' = files \cup {path}
    /\ pc' = of_ret
    /\ UNCHANGED <<filepath, scene, frame, of_locals, frame_current, kanim_open,
                   kanim_lines, written, outcome, probe>>

(* variant: the exporter's exception is recorded and the run goes on *)
X3dFailsSwallowed ==
    /\ pc = "of_x3d"
    /\ raised' = "x3d error"
    /\ pc' = of_ret
    /\ UNCHANGED <<filepath, scene, frame, of_locals, host, kanim_open, kanim_lines,
                   written, result, probe>>

(* output_frame, lines 90-94: the host exporter raises; it may or may not have left
   a partial file behind; nothing catches the exception *)
X3dFails ==
    /\ pc = "of_x3d"
    /\ \E partial \in BOOLEAN :
          files' = IF partial
                   THEN files \cup {X3dFilepath(output_dir, output_basename)}
                   ELSE files
    /\ raised' = "x3d error"
    /\ pc' = "raised"
    /\ UNCHANGED <<filepath, scene, frame, of_locals, frame_current, x3d_calls,
                   kanim_open, kanim_lines, written, result, probe>>

(* line 104 *)
Increment ==
    /\ pc = "incr"
    /\ frame' = NextFrame(frame, frame_skip)
    /\ pc' = "while"
    /\ UNCHANGED <<filepath, scene, of_locals, kanim_open, kanim_lines, written, host,
                   outcome, probe>>

(* line 109 *)
WriteEnd ==
    /\ pc = "write_end"
    /\ kanim_lines' = Append(kanim_lines, EndLine)
    /\ pc' = "close"
    /\ UNCHANGED <<filepath, scene, frame, of_locals, kanim_open, written, host,
                   outcome, probe>>

(* lines 98, 99, 85, 109: kanim_file.write raises *)
WriteFails ==
    /\ pc \in {"write_xml", "write_root", "of_write", "write_end"}
    /\ raised' = "IOError"
    /\ pc' = "raised"
    /\ UNCHANGED <<filepath, scene, frame, of_locals, kanim_open, kanim_lines, written,
                   host, result, probe>>

(* line 110 *)
Close ==
    /\ pc = "close"
    /\ kanim_open' = FALSE
    /\ pc' = "return"
    /\ UNCHANGED <<filepath, scene, frame, of_locals, kanim_lines, written, host,
                   outcome, probe>>

(* line 112 *)
Return ==
    /\ pc = "return"
    /\ result' = "FINISHED"
    /\ pc' = "done"
    /\ UNCHANGED <<filepath, scene, frame, of_locals, kanim_open, kanim_lines, written,
                   host, raised, probe>>

(* the steps of a run in which no host call fails *)
NextOK ==
    \/ Open \/ WriteXml \/ WriteRoot \/ InitFrame \/ WhileTrue \/ WhileFalse
    \/ OutputNames \/ WriteFrameLine \/ FrameSet \/ X3dExport \/ Increment
    \/ WriteEnd \/ Close \/ Return

Next ==
    \/ NextOK
    \/ OpenFails \/ WriteFails \/ FrameSetFails \/ X3dFails

Spec == Init /\ [][Next]_vars

(* execute is one synchronous call: each step that does not raise is followed by the next *)
InitFair == Init /\ filepath = Str_a_k

FairSpec == InitFair /\ [][NextOK]_vars /\ WF_vars(NextOK)

----------------------------------------------------------------------------
(* File-name generation taken alone: lines 80-82 applied to two frame numbers
   of one export run (one filepath) *)

NameFrames ==
    (0..NameWin)
    \cup {f \in {Pow10(k) + d : k \in 1..(PadWidth + 1), d \in (-NameWin)..NameWin} : f >= 0}

InitNames ==
    /\ filepath \in FilePaths
    /\ frame_skip = 4
    /\ frame_start = 0
    /\ frame_end = 0
    /\ frame_current = 0
    /\ pc = "idle"
    /\ Fresh
    /\ \E a \in NameFrames, b \in NameFrames :
          probe = [st |-> "input", a |-> a, b |-> b, name_a |-> <<>>, name_b |-> <<>>]

GenerateNames ==
    /\ probe.st = "input"
    /\ probe' = [probe EXCEPT !.st = "generated",
                              !.name_a = OutputBasename(filepath, probe.a),
                              !.name_b = OutputBasename(filepath, probe.b)]
    /\ UNCHANGED <<filepath, scene, frame, of_locals, kanim_open, kanim_lines, written,
                   host, outcome, pc>>

SpecNames == InitNames /\ [][GenerateNames]_vars

----------------------------------------------------------------------------
(* Reading the written text back *)

IsDigit(c) == \E i \in 1..Len(DigitChars) : DigitChars[i] = c

DigitValue(c) == (CHOOSE i \in 1..Len(DigitChars) : DigitChars[i] = c) - 1

AllDigits(s) == \A i \in 1..Len(s) : IsDigit(s[i])

RECURSIVE ParseDecimal(_)
ParseDecimal(s) ==
    IF s = <<>> THEN 0
    ELSE 10 * ParseDecimal(SubSeq(s, 1, Len(s) - 1)) + DigitValue(s[Len(s)])

(* a time attribute has the shape [-]D+.DDDDDD *)
TimeShape(t) ==
    LET u   == IF t # <<>> /\ t[1] = "-" THEN Tail(t) ELSE t
        dot == RFind(u, ".")
    IN  /\ dot > 1
        /\ Len(u) - dot = 6
        /\ AllDigits(SubSeq(u, 1, dot - 1))
        /\ AllDigits(SubSeq(u, dot + 1, Len(u)))

(* the value of a time attribute in microseconds *)
TimeMicros(t) ==
    LET neg == t # <<>> /\ t[1] = "-"
        u   == IF neg THEN Tail(t) ELSE t
        dot == RFind(u, ".")
        m   == ParseDecimal(SubSeq(u, 1, dot - 1)) * 1000000
               + ParseDecimal(SubSeq(u, dot + 1, Len(u)))
    IN  IF neg THEN -m ELSE m

IsFrameLine(l) == l.tag = "frame"

(* the <frame .../> entries of the index, in file order *)
FrameEntries == SelectSeq(kanim_lines, IsFrameLine)

(* the base name of the run: the index file's name without directory and extension *)
BaseName == SplitExtRoot(PathSplit(filepath)[2])

(* name is BaseName, then exactly n decimal digits, then ".x3d" *)
NameHasDigits(name, n) ==
    /\ Len(name) = Len(BaseName) + n + Len(Str_x3d)
    /\ SubSeq(name, 1, Len(BaseName)) = BaseName
    /\ AllDigits(SubSeq(name, Len(BaseName) + 1, Len(BaseName) + n))
    /\ SubSeq(name, Len(BaseName) + n + 1, Len(name)) = Str_x3d

FourDigitLimit == Pow10(PadWidth)

----------------------------------------------------------------------------
(* C1: for start <= end, a successful run writes index entries, and calls the
   exporter, for exactly start, start+(skip+1), start+2*(skip+1), ... below end,
   then end once as the last entry; the sequence is strictly increasing. *)

StrideFrames(start, end, skip) ==
    LET n == Cardinality({f \in start..(end - 1) : (f - start) % (skip + 1) = 0})
    IN  [i \in 1..n |-> start + (i - 1) * (skip + 1)] \o <<end>>

C1_FrameSequence ==
    (pc = "done" /\ frame_start <= frame_end) =>
        /\ written = StrideFrames(frame_start, frame_end, frame_skip)
        /\ \A i \in 1..(Len(written) - 1) : written[i] < written[i + 1]
        /\ written[Len(written)] = frame_end
        /\ Len(FrameEntries) = Len(written)
        /\ Len(x3d_calls) = Len(written)
        /\ \A i \in 1..Len(written) :
              /\ NameHasDigits(FrameEntries[i].file_name, PadWidth)
              /\ ParseDecimal(SubSeq(FrameEntries[i].file_name, Len(BaseName) + 1,
                                     Len(BaseName) + PadWidth)) = written[i]
              /\ x3d_calls[i].frame_current = written[i]

C1_Witness ==
    /\ pc = "done"
    /\ frame_start = 0 /\ frame_end = 12 /\ frame_skip = 4
    /\ written = <<0, 5, 10, 12>>

(* C2: the time attribute of the entry for frame F >= S is (F-S)/25 seconds, that is
   (F-S)*40000 microseconds with six decimal digits; the entry for F = S reads
   0.000000; times strictly increase along the entries of a run. *)
C2_Time ==
    /\ Len(FrameEntries) = Len(written)
    /\ \A i \in 1..Len(written) :
          written[i] >= frame_start =>
             /\ TimeShape(FrameEntries[i].time)
             /\ TimeMicros(FrameEntries[i].time) = (written[i] - frame_start) * 40000
             /\ (written[i] = frame_start =>
                    FrameEntries[i].time = <<"0", ".", "0", "0", "0", "0", "0", "0">>)
    /\ \A i \in 1..(Len(written) - 1) :
          TimeMicros(FrameEntries[i].time) < TimeMicros(FrameEntries[i + 1].time)

C2_Witness ==
    /\ pc = "done"
    /\ frame_start = 2
    /\ written = <<2, 7, 12>>
    /\ FrameEntries[3].time = <<"0", ".", "4", "0", "0", "0", "0", "0">>

(* C3: within one run, two distinct frame numbers in 0..9999 get distinct file names,
   each the base name, exactly four decimal digits, and .x3d. *)
C3_NamesInjective ==
    (probe.st = "generated" /\ probe.a < FourDigitLimit /\ probe.b < FourDigitLimit) =>
        /\ NameHasDigits(probe.name_a, 4)
        /\ NameHasDigits(probe.name_b, 4)
        /\ (probe.a # probe.b => probe.name_a # probe.name_b)

C3_Witness ==
    /\ probe.st = "generated"
    /\ probe.a = 9 /\ probe.b = 9999
    /\ probe.name_a # probe.name_b

(* C4: the file_name of a frame's index entry is the last component of the path given
   to the exporter for that frame, whose directory is the directory of the index
   file; after a successful run the names in the index are the model files the
   exporter was asked to write. *)
C4_SameName ==
    /\ \A i \in 1..Len(x3d_calls) :
          /\ i <= Len(FrameEntries)
          /\ PathSplit(x3d_calls[i].filepath)[2] = FrameEntries[i].file_name
          /\ PathSplit(x3d_calls[i].filepath)[1] = PathSplit(filepath)[1]
    /\ pc = "done" =>
          /\ {FrameEntries[i].file_name : i \in 1..Len(FrameEntries)}
               = {PathSplit(x3d_calls[i].filepath)[2] : i \in 1..Len(x3d_calls)}
          /\ files = {x3d_calls[i].filepath : i \in 1..Len(x3d_calls)}

C4_Witness ==
    /\ pc = "done"
    /\ filepath = Str_d_a1_k
    /\ Len(x3d_calls) >= 2
    /\ x3d_calls[1].filepath =
          <<"d", "/", "a", "1", "0", "0", "0", "0", ".", "x", "3", "d">>

(* C5: the index file opened by execute is closed on every way execute can end,
   normal completion and a raised error alike. *)
C5_ClosedOnEveryExit ==
    pc \in {"done", "raised"} => ~kanim_open

(* C6: when the host exporter fails on frame F the failure leaves execute: F is the
   last frame with an index entry, no later frame is exported, the closing tag is
   never written, FINISHED is not returned, nothing further happens, and the files
   of the earlier frames stay. *)
C6_ExporterFailure ==
    raised = "x3d error" =>
        /\ pc = "raised"
        /\ ~ENABLED Next
        /\ written # <<>>
        /\ written[Len(written)] = of_frame
        /\ Len(x3d_calls) = Len(written) - 1
        /\ \A i \in 1..Len(kanim_lines) : kanim_lines[i] # EndLine
        /\ result # "FINISHED"
        /\ \A i \in 1..Len(x3d_calls) : x3d_calls[i].filepath \in files

C6_Witness ==
    /\ pc = "raised"
    /\ raised = "x3d error"
    /\ Len(written) = 3
    /\ Len(x3d_calls) = 2
    /\ Cardinality(files) = 2

(* C7 (as claimed): when end < start the written frame sequence is [start, end]. *)
C7_StartThenEnd ==
    (pc = "done" /\ frame_end < frame_start) => written = <<frame_start, frame_end>>

(* C7 (amended): when end < start the loop body never runs and the written frame
   sequence is [end] alone. *)
C7_EndOnly ==
    (pc = "done" /\ frame_end < frame_start) =>
        /\ written = <<frame_end>>
        /\ Len(FrameEntries) = 1
        /\ Len(x3d_calls) = 1
        /\ x3d_calls[1].frame_current = frame_end

C7_Witness ==
    /\ pc = "done"
    /\ frame_start = 5 /\ frame_end = 3
    /\ written = <<3>>

(* C8 (as claimed): the index entry of a frame is appended after the exporter call
   for that frame, so every entry present in the index refers to a frame whose
   exporter call has completed. *)
C8_EntryAfterExport ==
    Len(written) <= Len(x3d_calls)

(* C8 (amended): per frame the order is index entry, then cursor set, then exporter;
   so every entry but possibly the last refers to a frame whose exporter call has
   completed, the last entry is ahead of its export only while that frame's cursor
   set or export is pending or has failed, and the cursor equals the frame being
   exported whenever the exporter is called. *)
C8_EntryBeforeExport ==
    /\ Len(x3d_calls) <= Len(written)
    /\ Len(written) <= Len(x3d_calls) + 1
    /\ (Len(written) = Len(x3d_calls) + 1) <=>
          (pc \in {"of_frame_set", "of_x3d"}
           \/ (pc = "raised" /\ raised \in {"frame_set error", "x3d error"}))
    /\ pc = "of_x3d" => (frame_current = of_frame /\ written[Len(written)] = of_frame)
    /\ \A i \in 1..Len(x3d_calls) : x3d_calls[i].frame_current = written[i]

C8_Witness ==
    /\ pc = "of_x3d"
    /\ Len(x3d_calls) = 1
    /\ Len(written) = 2
    /\ frame_current = of_frame
    /\ frame_current # frame_start

(* C9 (as claimed): two distinct frame numbers, at least one of them >= 10000, get
   the same file name within one run. *)
C9_Collision ==
    probe.st = "generated" =>
        \E f \in NameFrames, g \in NameFrames :
            /\ f # g
            /\ (f >= FourDigitLimit \/ g >= FourDigitLimit)
            /\ OutputBasename(filepath, f) = OutputBasename(filepath, g)

(* C9 (amended): from 10000 on the name carries all the digits of the frame number
   (more than four), and two distinct frame numbers, at least one of them >= 10000,
   still get distinct file names. *)
C9_NoCollision ==
    (probe.st = "generated" /\ probe.a >= FourDigitLimit) =>
        /\ \E n \in (PadWidth + 1)..(PadWidth + 2) :
              /\ NameHasDigits(probe.name_a, n)
              /\ ParseDecimal(SubSeq(probe.name_a, Len(BaseName) + 1,
                                     Len(BaseName) + n)) = probe.a
        /\ (probe.a # probe.b => probe.name_a # probe.name_b)

C9_Witness ==
    /\ probe.st = "generated"
    /\ probe.a = 10000 /\ probe.b = 0
    /\ probe.name_a # probe.name_b

(* C10: when no host call fails, execute terminates, having written
   ceil((end-start)/(skip+1)) + 1 index entries when start <= end and 1 entry when
   end < start, then the closing tag, with the file closed and FINISHED returned. *)
CeilDiv(a, b) == (a + b - 1) \div b

C10_Finished ==
    pc = "done" =>
        /\ Len(FrameEntries) =
              IF frame_start <= frame_end
              THEN CeilDiv(frame_end - frame_start, frame_skip + 1) + 1
              ELSE 1
        /\ kanim_lines[Len(kanim_lines)] = EndLine
        /\ \A i \in 1..(Len(kanim_lines) - 1) : kanim_lines[i] # EndLine
        /\ ~kanim_open
        /\ result = "FINISHED"
        /\ raised = "none"

C10_Terminates == <>(pc = "done") /\ []C10_Finished

C10_Witness ==
    /\ pc = "done"
    /\ frame_start = 1 /\ frame_end = 11 /\ frame_skip = 2
    /\ Len(FrameEntries) = 5
    /\ result = "FINISHED"

====
